---- MODULE Spec2Model ----
(***************************************************************************)
(* Herbario digital: Gest_Herb_service.  The tables muestra_botanica,      *)
(* clasificacion_herbario and paquete, the classification endpoints and    *)
(* the background recompute of paquete.estado                              *)
(* (actualizarEstadoPaqueteManual).  Every awaited data-store call is one  *)
(* atomic step; the code that runs between two awaits belongs to the step  *)
(* of the call it follows.                                                 *)
(***************************************************************************)
EXTENDS Naturals, Integers, Sequences, FiniteSets, TLC

\* ---------------------------------------------------------------- bounds
NumMuestras == 3
NumPaquetes == 2
MaxPeticiones == 2

Muestras == 1..NumMuestras
Paquetes == 1..NumPaquetes
Peticiones == 1..MaxPeticiones
\* Every request inserts at most one classification; ids are given in order.
IdsClasificacion == 1..MaxPeticiones

\* ---------------------------------------------------------------- values
NULL == "null"
SinResultado == "sin_resultado"

EstadosClasificacion == {"borrador", "en_analisis", "firmado", "completado", "clasificado"}
\* EstadosCompletados without 'completado'.
EstadosCompletadosSinCompletado == {"firmado", "clasificado"}
EstadosCompletados == {"completado", "firmado", "clasificado"}
EstadosEnProceso == {"en_analisis", "borrador"}
EstadosEditables == {"borrador", "en_analisis"}
EstadosPaquete == {"recibido", "en_proceso", "completo"}

VARIABLES
    id_paquete,        \* muestra_botanica.id_paquete, per sample (0: null)
    clasificaciones,   \* clasificacion_herbario: row id -> [id_muestra, estado]
    paquete,           \* paquete.estado, per package
    pet,               \* the requests in flight or answered, with their recompute
    est,               \* Lab_Service: the data read and the answer of a statistics request
    pen,               \* a GET /muestras/pendientes request
    log,               \* the file logger: its options, the day and the log directory
    nav                \* the frontend root component: view, history, user

\* The variables of the herbarium-management service, and those of the others.
gest == <<id_paquete, clasificaciones, paquete, pet>>
otros == <<est, pen, log, nav>>

\* The variables the statistics endpoints leave alone.
noLab == <<id_paquete, clasificaciones, paquete, pet, pen, log, nav>>

\* The variables the file logger leaves alone, and those the frontend does.
noLog == <<id_paquete, clasificaciones, paquete, pet, est, pen, nav>>
noNav == <<id_paquete, clasificaciones, paquete, pet, est, pen, log>>

vars == <<id_paquete, clasificaciones, paquete, pet, est, pen, log, nav>>

\* ------------------------------------------------------ data-store views
\* Row ids of the classifications of sample m.
FilasDe(m) == {c \in DOMAIN clasificaciones : clasificaciones[c].id_muestra = m}

\* .single(): the row when exactly one matches, no data (PGRST116) otherwise.
Single(filas) == IF Cardinality(filas) = 1 THEN CHOOSE c \in filas : TRUE ELSE 0

\* Samples of package p (.eq('id_paquete', idPaquete)).
MuestrasDe(p) == {m \in Muestras : id_paquete[m] = p}

\* The results the samples query can return for package p: per sample the
\* estado of the classification listed first in the embedded array, or
\* SinResultado for an empty array.  The embedded rows carry no ORDER BY, so
\* any row of the sample may come first.
MuestrasConClasificaciones(p) ==
    {e \in [MuestrasDe(p) -> EstadosClasificacion \cup {SinResultado}] :
        \A m \in MuestrasDe(p) :
            IF FilasDe(m) = {}
            THEN e[m] = SinResultado
            ELSE \E c \in FilasDe(m) : e[m] = clasificaciones[c].estado}

\* Trigger trg_validar_clasificacion_unica: an insert for a sample that has a
\* classification in borrador or en_analisis is rejected.
TriggerPermite(m) ==
    \A c \in FilasDe(m) : clasificaciones[c].estado \notin EstadosEnProceso

\* ------------------------------------------- actualizarEstadoPaqueteManual
Completadas(e) == Cardinality({m \in DOMAIN e : e[m] \in EstadosCompletados})
EnProceso(e) == Cardinality({m \in DOMAIN e : e[m] \in EstadosEnProceso})

\* NuevoEstado without the totalMuestras > 0 guard.
NuevoEstadoSinGuarda(totalMuestras, completadas, enProceso) ==
    IF completadas = totalMuestras THEN "completo"
    ELSE IF enProceso > 0 THEN "en_proceso"
    ELSE "recibido"

\* NuevoEstado counting a completed sample as work in progress.
NuevoEstadoParcial(totalMuestras, completadas, enProceso) ==
    IF totalMuestras > 0 /\ completadas = totalMuestras THEN "completo"
    ELSE IF enProceso > 0 \/ completadas > 0 THEN "en_proceso"
    ELSE "recibido"

NuevoEstado(totalMuestras, completadas, enProceso) ==
    IF totalMuestras > 0 /\ completadas = totalMuestras THEN "completo"
    ELSE IF enProceso > 0 THEN "en_proceso"
    ELSE "recibido"

\* ActualizarPaquete without the .eq('id', idPaquete) filter.
ActualizarTodos(paq, idPaquete, estado) == [p \in DOMAIN paq |-> estado]

\* supabase.from('paquete').update({ estado }).eq('id', idPaquete)
ActualizarPaquete(paq, idPaquete, estado) == [paq EXCEPT ![idPaquete] = estado]

\* ---------------------------------------------------------------- requests
PeticionLibre ==
    [ruta |-> "ninguna", pc |-> "libre", idMuestra |-> 0, id |-> 0,
     estado |-> NULL, existing |-> 0, status |-> 0, actualizo |-> FALSE,
     rc |-> "ninguno", rcMuestra |-> 0, idPaquete |-> 0,
     totalMuestras |-> 0, nuevoEstado |-> NULL]

\* Lab_Service has read nothing and answered nothing.
EstVacio ==
    [depto |-> <<>>, filas |-> <<>>, ruta |-> "ninguna", pc |-> "libre",
     ubicacion |-> <<>>, tipo |-> NULL, nivel |-> NULL,
     consultas |-> 0, error |-> FALSE, status |-> 0, cuerpo |-> <<>>]

\* No GET /muestras/pendientes request has been made.
PendientesLibre ==
    [pc |-> "libre", ids |-> {}, conFila |-> {}, status |-> 0, cuerpo |-> {}]

\* ------------------------------------------------------ the file logger
\* options.maxFileSize, in units of message size, and options.maxFiles.
MaxFileSize == 2
MaxFiles == 2
\* The largest message, the days the logger runs and the size the combined
\* file of a day is followed up to.
MaxMensaje == 2
MaxDias == 2
MaxCombinado == 8

NivelesLog == {"info", "error"}
Dias == 1..MaxDias
Mensajes == 1..MaxMensaje

\* <<level, day, i>>: `${serviceName}-${level}-${date}.log` for i = 0 and
\* `${basename}.${i}.log` for a rotated file.
NombresLog == NivelesLog \X Dias \X (0..(MaxFiles + 1))

\* A file that does not exist; an existing one holds its messages, each as its
\* size.
Ausente == [existe |-> FALSE, datos |-> <<>>]

\* A logger over an empty log directory.
LogInicial ==
    [enableFileLogging |-> TRUE, dia |-> 1,
     archivos |-> [n \in NombresLog |-> Ausente],
     combinado |-> [d \in Dias |-> 0]]

\* ------------------------------------------------- the frontend component
\* currentView, navigationHistory, userData.rol; montado: onMounted has run.
\* op: the handler that ran last.
NavInicial ==
    [currentView |-> "MainPage", navigationHistory |-> <<"MainPage">>,
     rol |-> NULL, montado |-> FALSE, op |-> "ninguna"]

Init ==
    /\ id_paquete \in {[m \in Muestras |-> 1],
                       [m \in Muestras |-> IF m = 1 THEN 2 ELSE 1]}
    /\ clasificaciones = <<>>
    /\ paquete = [p \in Paquetes |-> "recibido"]
    /\ pet = [i \in Peticiones |-> PeticionLibre]
    /\ est = EstVacio
    /\ pen = PendientesLibre
    /\ log = LogInicial
    /\ nav = NavInicial

\* A free slot; slots are taken in order.
Disponible(i) ==
    /\ pet[i].ruta = "ninguna"
    /\ i > 1 => pet[i - 1].ruta # "ninguna"

\* The handler answers: its locals go out of scope.
Responder(r, status, actualizo) ==
    [r EXCEPT !.pc = "respondida", !.status = status, !.actualizo = actualizo,
              !.idMuestra = 0, !.id = 0, !.estado = NULL, !.existing = 0]

\* Disparar with the call awaited: the handler does not answer yet.
DispararEsperando(r, idMuestra) ==
    [r EXCEPT !.rc = "lookup", !.rcMuestra = idMuestra, !.pc = "esperando"]

\* actualizarEstadoPaqueteManual(idMuestra) is called and not awaited: it runs
\* up to its first await (the sample lookup is issued).
Disparar(r, idMuestra) == [r EXCEPT !.rc = "lookup", !.rcMuestra = idMuestra]

\* ------------------------------------- PUT /clasificaciones/:idMuestra/estado
\* Validation and the lookup of the sample's classification.
MuestraEstadoBuscar(i) ==
    /\ Disponible(i)
    /\ \E m \in Muestras, e \in EstadosClasificacion :
         pet' = [pet EXCEPT ![i] =
                [PeticionLibre EXCEPT !.ruta = "muestraEstado", !.pc = "escribir",
                     !.idMuestra = m, !.estado = e, !.existing = Single(FilasDe(m))]]
    /\ UNCHANGED <<id_paquete, clasificaciones, paquete, otros>>

\* findError other than PGRST116: 500.
MuestraEstadoErrorBuscar(i) ==
    /\ Disponible(i)
    /\ pet' = [pet EXCEPT ![i] =
            Responder([PeticionLibre EXCEPT !.ruta = "muestraEstado"], 500, FALSE)]
    /\ UNCHANGED <<id_paquete, clasificaciones, paquete, otros>>

\* !estado: 400 before any query.
MuestraEstadoSinEstado(i) ==
    /\ Disponible(i)
    /\ pet' = [pet EXCEPT ![i] =
            Responder([PeticionLibre EXCEPT !.ruta = "muestraEstado"], 400, FALSE)]
    /\ UNCHANGED <<id_paquete, clasificaciones, paquete, otros>>

\* if (existing): update, trigger the recompute, answer 200.
MuestraEstadoActualizar(i) ==
    /\ pet[i].ruta = "muestraEstado" /\ pet[i].pc = "escribir"
    /\ pet[i].existing # 0
    /\ clasificaciones' = [clasificaciones EXCEPT ![pet[i].existing].estado = pet[i].estado]
    /\ pet' = [pet EXCEPT ![i] =
            Disparar(Responder(@, 200, TRUE), clasificaciones[pet[i].existing].id_muestra)]
    /\ UNCHANGED <<id_paquete, paquete, otros>>

\* else: insert, trigger the recompute, answer 201.
MuestraEstadoInsertar(i) ==
    /\ pet[i].ruta = "muestraEstado" /\ pet[i].pc = "escribir"
    /\ pet[i].existing = 0
    /\ TriggerPermite(pet[i].idMuestra)
    /\ clasificaciones' = Append(clasificaciones,
            [id_muestra |-> pet[i].idMuestra, estado |-> pet[i].estado])
    /\ pet' = [pet EXCEPT ![i] = Disparar(Responder(@, 201, TRUE), pet[i].idMuestra)]
    /\ UNCHANGED <<id_paquete, paquete, otros>>

\* The trigger rejects the insert: 500.
MuestraEstadoRechazada(i) ==
    /\ pet[i].ruta = "muestraEstado" /\ pet[i].pc = "escribir"
    /\ pet[i].existing = 0
    /\ ~TriggerPermite(pet[i].idMuestra)
    /\ pet' = [pet EXCEPT ![i] = Responder(@, 500, FALSE)]
    /\ UNCHANGED <<id_paquete, clasificaciones, paquete, otros>>

\* The update or the insert fails in the data store: 500.
MuestraEstadoError(i) ==
    /\ pet[i].ruta = "muestraEstado" /\ pet[i].pc = "escribir"
    /\ pet' = [pet EXCEPT ![i] = Responder(@, 500, FALSE)]
    /\ UNCHANGED <<id_paquete, clasificaciones, paquete, otros>>

\* --------------------------------------- PUT /clasificaciones/id/:id/estado
\* !estado: 400 before any query.
IdEstadoSinEstado(i) ==
    /\ Disponible(i)
    /\ pet' = [pet EXCEPT ![i] =
            Responder([PeticionLibre EXCEPT !.ruta = "idEstado"], 400, FALSE)]
    /\ UNCHANGED <<id_paquete, clasificaciones, paquete, otros>>

\* update({ estado }).eq('id', id): no row matching is no error.
IdEstadoActualizar(i) ==
    /\ Disponible(i)
    /\ \E id \in IdsClasificacion, e \in EstadosClasificacion :
         /\ clasificaciones' =
                IF id \in DOMAIN clasificaciones
                THEN [clasificaciones EXCEPT ![id].estado = e]
                ELSE clasificaciones
         /\ pet' = [pet EXCEPT ![i] =
                [PeticionLibre EXCEPT !.ruta = "idEstado", !.pc = "buscar",
                     !.id = id, !.estado = e,
                     !.actualizo = (id \in DOMAIN clasificaciones)]]
    /\ UNCHANGED <<id_paquete, paquete, otros>>

\* The update fails: 500.
IdEstadoError(i) ==
    /\ Disponible(i)
    /\ pet' = [pet EXCEPT ![i] =
            Responder([PeticionLibre EXCEPT !.ruta = "idEstado"], 500, FALSE)]
    /\ UNCHANGED <<id_paquete, clasificaciones, paquete, otros>>

\* select('id_muestra').eq('id', id).single(); the recompute is triggered when
\* the row was found; the answer is 200 either way.
IdEstadoBuscar(i) ==
    /\ pet[i].ruta = "idEstado" /\ pet[i].pc = "buscar"
    /\ pet[i].id \in DOMAIN clasificaciones
    /\ pet' = [pet EXCEPT ![i] =
            Disparar(Responder(@, 200, pet[i].actualizo),
                     clasificaciones[pet[i].id].id_muestra)]
    /\ UNCHANGED <<id_paquete, clasificaciones, paquete, otros>>

\* No row has the id: .single() gives no data, no recompute, 200.
IdEstadoSinFila(i) ==
    /\ pet[i].ruta = "idEstado" /\ pet[i].pc = "buscar"
    /\ pet[i].id \notin DOMAIN clasificaciones
    /\ pet' = [pet EXCEPT ![i] = Responder(@, 200, pet[i].actualizo)]
    /\ UNCHANGED <<id_paquete, clasificaciones, paquete, otros>>

\* errorBusqueda: no data, no recompute, 200.
IdEstadoErrorBusqueda(i) ==
    /\ pet[i].ruta = "idEstado" /\ pet[i].pc = "buscar"
    /\ pet' = [pet EXCEPT ![i] = Responder(@, 200, pet[i].actualizo)]
    /\ UNCHANGED <<id_paquete, clasificaciones, paquete, otros>>

\* -------------------------------------------------- POST /clasificaciones
ClasificacionesPost(i) ==
    /\ Disponible(i)
    /\ \E m \in Muestras, e \in EstadosClasificacion :
         \/ /\ TriggerPermite(m)
            /\ clasificaciones' = Append(clasificaciones, [id_muestra |-> m, estado |-> e])
            /\ pet' = [pet EXCEPT ![i] =
                    Responder([PeticionLibre EXCEPT !.ruta = "post"], 201, TRUE)]
         \/ /\ ~TriggerPermite(m)
            /\ pet' = [pet EXCEPT ![i] =
                    Responder([PeticionLibre EXCEPT !.ruta = "post"], 409, FALSE)]
            /\ UNCHANGED clasificaciones
         \/ /\ pet' = [pet EXCEPT ![i] =
                    Responder([PeticionLibre EXCEPT !.ruta = "post"], 500, FALSE)]
            /\ UNCHANGED clasificaciones
    /\ UNCHANGED <<id_paquete, paquete, otros>>

\* ------------------------------------------------ PUT /clasificaciones/:id
\* update(req.body).eq('id', id).select('id').single(): no row is an error.
ClasificacionesPut(i) ==
    /\ Disponible(i)
    /\ \E id \in IdsClasificacion, e \in EstadosClasificacion :
         \/ /\ id \in DOMAIN clasificaciones
            /\ clasificaciones' = [clasificaciones EXCEPT ![id].estado = e]
            /\ pet' = [pet EXCEPT ![i] =
                    Responder([PeticionLibre EXCEPT !.ruta = "put"], 200, TRUE)]
         \/ /\ pet' = [pet EXCEPT ![i] =
                    Responder([PeticionLibre EXCEPT !.ruta = "put"], 500, FALSE)]
            /\ UNCHANGED clasificaciones
    /\ UNCHANGED <<id_paquete, paquete, otros>>

\* ------------------------------------ PUT /clasificaciones/muestra/:muestraId
\* The lookup of the sample's classification; 409 when it is not editable.
MuestraBuscar(i) ==
    /\ Disponible(i)
    /\ \E m \in Muestras, e \in EstadosClasificacion :
         LET existing == Single(FilasDe(m)) IN
         \/ /\ existing # 0 => clasificaciones[existing].estado \in EstadosEditables
            /\ pet' = [pet EXCEPT ![i] =
                    [PeticionLibre EXCEPT !.ruta = "muestra", !.pc = "escribir",
                         !.idMuestra = m, !.estado = e, !.existing = existing]]
         \/ /\ existing # 0 /\ clasificaciones[existing].estado \notin EstadosEditables
            /\ pet' = [pet EXCEPT ![i] =
                    Responder([PeticionLibre EXCEPT !.ruta = "muestra"], 409, FALSE)]
    /\ UNCHANGED <<id_paquete, clasificaciones, paquete, otros>>

\* findError other than PGRST116: 500.
MuestraErrorBuscar(i) ==
    /\ Disponible(i)
    /\ pet' = [pet EXCEPT ![i] =
            Responder([PeticionLibre EXCEPT !.ruta = "muestra"], 500, FALSE)]
    /\ UNCHANGED <<id_paquete, clasificaciones, paquete, otros>>

\* update(req.body).eq('id', existing.id): 200.
MuestraActualizar(i) ==
    /\ pet[i].ruta = "muestra" /\ pet[i].pc = "escribir"
    /\ pet[i].existing # 0
    /\ clasificaciones' = [clasificaciones EXCEPT ![pet[i].existing].estado = pet[i].estado]
    /\ pet' = [pet EXCEPT ![i] = Responder(@, 200, TRUE)]
    /\ UNCHANGED <<id_paquete, paquete, otros>>

\* insert({ ...req.body, id_muestra }): 201.
MuestraInsertar(i) ==
    /\ pet[i].ruta = "muestra" /\ pet[i].pc = "escribir"
    /\ pet[i].existing = 0
    /\ TriggerPermite(pet[i].idMuestra)
    /\ clasificaciones' = Append(clasificaciones,
            [id_muestra |-> pet[i].idMuestra, estado |-> pet[i].estado])
    /\ pet' = [pet EXCEPT ![i] = Responder(@, 201, TRUE)]
    /\ UNCHANGED <<id_paquete, paquete, otros>>

\* The trigger rejects the insert: 409.
MuestraRechazada(i) ==
    /\ pet[i].ruta = "muestra" /\ pet[i].pc = "escribir"
    /\ pet[i].existing = 0
    /\ ~TriggerPermite(pet[i].idMuestra)
    /\ pet' = [pet EXCEPT ![i] = Responder(@, 409, FALSE)]
    /\ UNCHANGED <<id_paquete, clasificaciones, paquete, otros>>

\* The update or the insert fails in the data store: 500.
MuestraError(i) ==
    /\ pet[i].ruta = "muestra" /\ pet[i].pc = "escribir"
    /\ pet' = [pet EXCEPT ![i] = Responder(@, 500, FALSE)]
    /\ UNCHANGED <<id_paquete, clasificaciones, paquete, otros>>

\* --------------------------------------------------------- PUT /muestras/:id
\* update(req.body).eq('id', id): the body may give the sample another package.
MuestrasPut(i) ==
    /\ Disponible(i)
    /\ \E m \in Muestras, p \in Paquetes \cup {0} :
         \/ /\ id_paquete' = [id_paquete EXCEPT ![m] = p]
            /\ pet' = [pet EXCEPT ![i] =
                    Responder([PeticionLibre EXCEPT !.ruta = "muestras"], 200, FALSE)]
         \/ /\ pet' = [pet EXCEPT ![i] =
                    Responder([PeticionLibre EXCEPT !.ruta = "muestras"], 500, FALSE)]
            /\ UNCHANGED id_paquete
    /\ UNCHANGED <<clasificaciones, paquete, otros>>

\* ------------------------------------------- actualizarEstadoPaqueteManual
\* Terminar with a failure of the recompute turned into the answer.
TerminarPropagando(r, rc) ==
    [r EXCEPT !.rc = rc, !.rcMuestra = 0, !.idPaquete = 0, !.nuevoEstado = NULL,
              !.status = IF rc = "fallo" THEN 500 ELSE @]

\* The recompute ends (a return; a failure is logged only): its locals go out
\* of scope.
Terminar(r, rc) ==
    [r EXCEPT !.rc = rc, !.rcMuestra = 0, !.idPaquete = 0, !.nuevoEstado = NULL]

\* from('muestra_botanica').select('id_paquete').eq('id', idMuestra).single()
RecomputeBuscarPaquete(i) ==
    /\ pet[i].rc = "lookup"
    /\ id_paquete[pet[i].rcMuestra] # 0
    /\ pet' = [pet EXCEPT ![i].rc = "leer", ![i].idPaquete = id_paquete[pet[i].rcMuestra]]
    /\ UNCHANGED <<id_paquete, clasificaciones, paquete, otros>>

\* errorMuestra || !muestra || !muestra.id_paquete: return.
RecomputeSinPaquete(i) ==
    /\ pet[i].rc = "lookup"
    /\ pet' = [pet EXCEPT ![i] = Terminar(@, IF id_paquete[pet[i].rcMuestra] = 0
                                              THEN "sin_paquete" ELSE "fallo")]
    /\ UNCHANGED <<id_paquete, clasificaciones, paquete, otros>>

\* The samples query, the counting pass and the decision.
RecomputeLeerMuestras(i) ==
    /\ pet[i].rc = "leer"
    /\ \E e \in MuestrasConClasificaciones(pet[i].idPaquete) :
         LET totalMuestras == Cardinality(DOMAIN e) IN
         pet' = [pet EXCEPT ![i].rc = "escribir",
                            ![i].totalMuestras = totalMuestras,
                            ![i].nuevoEstado =
                                NuevoEstado(totalMuestras, Completadas(e), EnProceso(e))]
    /\ UNCHANGED <<id_paquete, clasificaciones, paquete, otros>>

\* errorMuestras: return.
RecomputeErrorMuestras(i) ==
    /\ pet[i].rc = "leer"
    /\ pet' = [pet EXCEPT ![i] = Terminar(@, "fallo")]
    /\ UNCHANGED <<id_paquete, clasificaciones, paquete, otros>>

\* from('paquete').update({ estado: nuevoEstado }).eq('id', idPaquete)
RecomputeActualizarPaquete(i) ==
    /\ pet[i].rc = "escribir"
    /\ paquete' = ActualizarPaquete(paquete, pet[i].idPaquete, pet[i].nuevoEstado)
    /\ pet' = [pet EXCEPT ![i] = Terminar(@, "escrito")]
    /\ UNCHANGED <<id_paquete, clasificaciones, otros>>

\* errorActualizacion: return.
RecomputeErrorActualizacion(i) ==
    /\ pet[i].rc = "escribir"
    /\ pet' = [pet EXCEPT ![i] = Terminar(@, "fallo")]
    /\ UNCHANGED <<id_paquete, clasificaciones, paquete, otros>>

Next ==
    \E i \in Peticiones :
        \/ MuestraEstadoBuscar(i)
        \/ MuestraEstadoErrorBuscar(i)
        \/ MuestraEstadoSinEstado(i)
        \/ MuestraEstadoActualizar(i)
        \/ MuestraEstadoInsertar(i)
        \/ MuestraEstadoRechazada(i)
        \/ MuestraEstadoError(i)
        \/ IdEstadoSinEstado(i)
        \/ IdEstadoActualizar(i)
        \/ IdEstadoError(i)
        \/ IdEstadoBuscar(i)
        \/ IdEstadoSinFila(i)
        \/ IdEstadoErrorBusqueda(i)
        \/ ClasificacionesPost(i)
        \/ ClasificacionesPut(i)
        \/ MuestraBuscar(i)
        \/ MuestraErrorBuscar(i)
        \/ MuestraActualizar(i)
        \/ MuestraInsertar(i)
        \/ MuestraRechazada(i)
        \/ MuestraError(i)
        \/ MuestrasPut(i)
        \/ RecomputeBuscarPaquete(i)
        \/ RecomputeSinPaquete(i)
        \/ RecomputeLeerMuestras(i)
        \/ RecomputeErrorMuestras(i)
        \/ RecomputeActualizarPaquete(i)
        \/ RecomputeErrorActualizacion(i)

Spec == Init /\ [][Next]_vars

\* The two estado endpoints and their recomputes alone, every data-store call
\* succeeding.
NextEstado ==
    \E i \in Peticiones :
        \/ MuestraEstadoBuscar(i)
        \/ MuestraEstadoActualizar(i)
        \/ MuestraEstadoInsertar(i)
        \/ MuestraEstadoRechazada(i)
        \/ IdEstadoActualizar(i)
        \/ IdEstadoBuscar(i)
        \/ IdEstadoSinFila(i)
        \/ RecomputeBuscarPaquete(i)
        \/ RecomputeLeerMuestras(i)
        \/ RecomputeActualizarPaquete(i)

SpecEstado == Init /\ [][NextEstado]_vars

\* ------------------------------------------------------------ properties
RutasEstado == {"idEstado", "muestraEstado"}

\* Steps of the recompute of request i.
LeeMuestras(i) == pet[i].rc = "leer" /\ pet'[i].rc = "escribir"
EscribePaquete(i) == pet[i].rc = "escribir" /\ pet'[i].rc = "escrito"

TieneCompletada(m) ==
    \E c \in FilasDe(m) : clasificaciones[c].estado \in EstadosCompletados
TieneEnProceso(m) ==
    \E c \in FilasDe(m) : clasificaciones[c].estado \in EstadosEnProceso
TodasCompletadas(p) ==
    MuestrasDe(p) # {} /\ \A m \in MuestrasDe(p) : TieneCompletada(m)

\* The estados a recompute of package p can derive from the persisted rows.
EstadosDerivables(p) ==
    {NuevoEstado(Cardinality(DOMAIN e), Completadas(e), EnProceso(e)) :
        e \in MuestrasConClasificaciones(p)}

\* No request is being handled and no recompute is pending or running.
Quiescente ==
    \A i \in Peticiones :
        /\ pet[i].pc \in {"libre", "respondida"}
        /\ pet[i].rc \notin {"lookup", "leer", "escribir"}

\* C1: a recompute derives, and then writes, 'completo' exactly when the
\* package has a sample and every sample of it has a classification in
\* completado, firmado or clasificado at the time of the samples query.
C1_CompletoSiiTodasCompletadas ==
    [][\A i \in Peticiones :
        /\ LeeMuestras(i) =>
              (pet'[i].nuevoEstado = "completo" <=> TodasCompletadas(pet[i].idPaquete))
        /\ EscribePaquete(i) =>
              paquete'[pet[i].idPaquete] = pet[i].nuevoEstado]_vars

\* The package holds three samples, two with one classification each in
\* 'completado' and one without classification.
EscenarioDosDeTres(p) ==
    /\ Cardinality(MuestrasDe(p)) = 3
    /\ Cardinality({m \in MuestrasDe(p) : FilasDe(m) = {}}) = 1
    /\ Cardinality({m \in MuestrasDe(p) :
            /\ Cardinality(FilasDe(m)) = 1
            /\ \A c \in FilasDe(m) : clasificaciones[c].estado = "completado"}) = 2

\* C2 (as claimed): in the two-of-three scenario the recompute derives and
\* writes 'en_proceso'.
C2_DosDeTresEnProceso ==
    [][\A i \in Peticiones :
        /\ (LeeMuestras(i) /\ EscenarioDosDeTres(pet[i].idPaquete)) =>
              pet'[i].nuevoEstado = "en_proceso"
        /\ EscribePaquete(i) =>
              paquete'[pet[i].idPaquete] = pet[i].nuevoEstado]_vars

\* C2 (amended): in the two-of-three scenario the recompute derives and
\* writes 'recibido'.
C2_DosDeTresRecibido ==
    [][\A i \in Peticiones :
        /\ (LeeMuestras(i) /\ EscenarioDosDeTres(pet[i].idPaquete)) =>
              pet'[i].nuevoEstado = "recibido"
        /\ EscribePaquete(i) =>
              paquete'[pet[i].idPaquete] = pet[i].nuevoEstado]_vars

\* A recompute that read the two-of-three scenario has written the package.
C2_Witness ==
    \E i \in Peticiones, p \in Paquetes :
        /\ pet[i].rc = "escrito" /\ pet[i].totalMuestras = 3
        /\ EscenarioDosDeTres(p) /\ paquete[p] = "recibido"

\* C3: the recompute issues the update of paquete only when the derived
\* estado differs from the stored one.
C3_EscribeSoloSiCambia ==
    [][\A i \in Peticiones :
        EscribePaquete(i) => pet[i].nuevoEstado # paquete[pet[i].idPaquete]]_vars

\* C4: with the two estado endpoints alone, once every request and every
\* recompute has finished, each package holds an estado derivable from the
\* persisted classifications.
C4_EstadoFinalDerivado ==
    Quiescente => \A p \in Paquetes : paquete[p] \in EstadosDerivables(p)

\* C5: whatever classification writes led there, when no recompute is pending
\* or running each package's estado is the derivation of its samples' rows.
C5_EstadoSiempreDerivado ==
    (\A i \in Peticiones : pet[i].rc \notin {"lookup", "leer", "escribir"}) =>
        \A p \in Paquetes :
            \E e \in MuestrasConClasificaciones(p) :
                paquete[p] = NuevoEstado(Cardinality(MuestrasDe(p)),
                                         Completadas(e), EnProceso(e))

\* C6: when not every sample is completed, the recompute derives 'en_proceso'
\* exactly when some sample has a classification in en_analisis or borrador,
\* and 'recibido' otherwise.
C6_EnProcesoSiiAlgunaEnProceso ==
    [][\A i \in Peticiones :
        (LeeMuestras(i) /\ ~TodasCompletadas(pet[i].idPaquete)) =>
            pet'[i].nuevoEstado =
                IF \E m \in MuestrasDe(pet[i].idPaquete) : TieneEnProceso(m)
                THEN "en_proceso" ELSE "recibido"]_vars

\* C7: a recompute whose samples query returned no sample never derives nor
\* writes 'completo'.
C7_SinMuestrasNuncaCompleto ==
    [][\A i \in Peticiones :
        /\ (LeeMuestras(i) /\ MuestrasDe(pet[i].idPaquete) = {}) =>
              pet'[i].nuevoEstado # "completo"
        /\ (EscribePaquete(i) /\ pet[i].totalMuestras = 0) =>
              paquete'[pet[i].idPaquete] # "completo"]_vars

\* A recompute that read a package without samples has written it.
C7_Witness ==
    \E i \in Peticiones : pet[i].rc = "escrito" /\ pet[i].totalMuestras = 0

C9_ExitoImplicaEscrituraYRecompute ==
    \A i \in Peticiones :
        (pet[i].ruta \in RutasEstado /\ pet[i].status \in {200, 201}) =>
            (pet[i].actualizo /\ pet[i].rc # "ninguno")

\* Some step of the recompute of request i.
PasoRecompute(i) ==
    pet[i].rc \in {"lookup", "leer", "escribir"} /\ pet'[i].rc # pet[i].rc

\* C10: a recompute works on the package that owned its sample when it looked
\* the sample up, and changes nothing but that package's estado.
C10_SoloEstadoDelPaquete ==
    [][\A i \in Peticiones :
        /\ (pet[i].rc = "lookup" /\ pet'[i].rc = "leer") =>
              pet'[i].idPaquete = id_paquete[pet[i].rcMuestra]
        /\ PasoRecompute(i) =>
              /\ id_paquete' = id_paquete
              /\ clasificaciones' = clasificaciones
              /\ \A p \in Paquetes \ {pet[i].idPaquete} : paquete'[p] = paquete[p]]_vars

\* A recompute has written an estado other than the initial one while another
\* package kept its own.
C10_Witness ==
    \E i \in Peticiones, p, q \in Paquetes :
        pet[i].rc = "escrito" /\ paquete[p] # "recibido" /\ paquete[q] = "recibido"

\* The two look-up-then-write endpoints and the recomputes they trigger, every
\* data-store call succeeding (the trigger may still reject an insert).
NextUpsert ==
    \E i \in Peticiones :
        \/ MuestraEstadoBuscar(i)
        \/ MuestraEstadoActualizar(i)
        \/ MuestraEstadoInsertar(i)
        \/ MuestraEstadoRechazada(i)
        \/ MuestraBuscar(i)
        \/ MuestraActualizar(i)
        \/ MuestraInsertar(i)
        \/ MuestraRechazada(i)
        \/ RecomputeBuscarPaquete(i)
        \/ RecomputeLeerMuestras(i)
        \/ RecomputeActualizarPaquete(i)

SpecUpsert == Init /\ [][NextUpsert]_vars

\* C11: after any interleaving of PUT /clasificaciones/:idMuestra/estado and
\* PUT /clasificaciones/muestra/:muestraId requests, every sample has at most
\* one classification row.
C11_UnaFilaPorMuestra ==
    \A m \in Muestras : Cardinality(FilasDe(m)) <= 1

EstadosTerminales == {"completado", "firmado"}

\* C12: once the estado of a classification row is 'completado' or 'firmado',
\* no request to a classification endpoint changes it to another value.
C12_TerminalesNoCambian ==
    [][\A c \in DOMAIN clasificaciones :
          clasificaciones[c].estado \in EstadosTerminales
              => clasificaciones'[c].estado = clasificaciones[c].estado]_vars

\* ------------------------------------------------- advancing changes only
\* no record (0) -> borrador/en_analisis (1) -> firmado/completado/clasificado (2)
Rango(e) ==
    IF e \in {"borrador", "en_analisis"} THEN 1
    ELSE IF e \in {"firmado", "completado", "clasificado"} THEN 2
    ELSE 0

RangoMuestra(m) ==
    IF FilasDe(m) = {} THEN 0
    ELSE CHOOSE r \in 0..2 :
            /\ \E c \in FilasDe(m) : Rango(clasificaciones[c].estado) = r
            /\ \A c \in FilasDe(m) : Rango(clasificaciones[c].estado) <= r

\* recibido < en_proceso < completo
RangoPaquete(e) ==
    IF e = "recibido" THEN 0 ELSE IF e = "en_proceso" THEN 1 ELSE 2

\* PUT /clasificaciones/:idMuestra/estado, sent when the previous request and
\* its recompute have ended, with an estado that does not take the sample back.
AvanceMuestraEstado(i) ==
    /\ Quiescente
    /\ MuestraEstadoBuscar(i)
    /\ Rango(pet'[i].estado) >= RangoMuestra(pet'[i].idMuestra)

\* PUT /clasificaciones/id/:id/estado, sent in the same way.
AvanceIdEstado(i) ==
    /\ Quiescente
    /\ IdEstadoActualizar(i)
    /\ pet'[i].id \in DOMAIN clasificaciones
          => Rango(pet'[i].estado) >= Rango(clasificaciones[pet'[i].id].estado)

\* One request at a time, each followed by its recompute, every data-store
\* call succeeding.
NextAvance ==
    \E i \in Peticiones :
        \/ AvanceMuestraEstado(i)
        \/ MuestraEstadoActualizar(i)
        \/ MuestraEstadoInsertar(i)
        \/ AvanceIdEstado(i)
        \/ IdEstadoBuscar(i)
        \/ IdEstadoSinFila(i)
        \/ RecomputeBuscarPaquete(i)
        \/ RecomputeLeerMuestras(i)
        \/ RecomputeActualizarPaquete(i)

SpecAvance == Init /\ [][NextAvance]_vars

\* C13 as stated: while classifications only advance and a recompute follows
\* each change, the package estado never moves backwards along
\* recibido -> en_proceso -> completo.
C13_PaqueteNoRetrocede ==
    [][\A p \in Paquetes : RangoPaquete(paquete'[p]) >= RangoPaquete(paquete[p])]_vars

\* C13, amended: while classifications only advance and a recompute follows
\* each change, a package that is 'completo' stays 'completo' (it can move
\* back from 'en_proceso' to 'recibido').
C13_CompletoNoRetrocede ==
    [][\A p \in Paquetes : paquete[p] = "completo" => paquete'[p] = "completo"]_vars

\* A later advancing change of a complete package has been made and its
\* recompute is about to write.
C13_Witness ==
    \E i \in Peticiones :
        /\ pet[i].rc = "escribir"
        /\ pet[i].actualizo
        /\ paquete[pet[i].idPaquete] = "completo"

\* =============================================================== Lab_Service
\* The statistics endpoints read the tables and write nothing. A name (of a
\* department, of a region, the ubicacion parameter) is the sequence of its
\* words; <<>> is a null, missing or empty name.
NumEspecimenes == 2
MaxFilas == 2

Especimenes == 1..NumEspecimenes

SinNombre == <<>>

\* departamento(nombre, region(nombre)): the rows of the two tables.
Departamentos == {<<"Antioquia">>, <<"Caldas">>, <<"Bolívar">>, <<"San", "Andrés">>}

RegionDe(d) ==
    CASE d = <<"Antioquia">> -> <<"Andina">>
      [] d = <<"Caldas">> -> <<"Región", "Andina">>
      [] d = <<"Bolívar">> -> <<"región", "Caribe">>
      [] d = <<"San", "Andrés">> -> <<"Insular">>
      [] OTHER -> SinNombre

\* especie(nombre, tipo_amenaza, genero(nombre, familia(nombre))): the rows.
Especies == {"Quercus humboldtii", "Inga edulis", "Indet sp"}

TipoAmenaza(e) ==
    CASE e = "Quercus humboldtii" -> "VU"
      [] e = "Inga edulis" -> NULL
      [] OTHER -> ""

Genero(e) ==
    CASE e = "Quercus humboldtii" -> "Quercus"
      [] e = "Inga edulis" -> "Inga"
      [] OTHER -> NULL

Familia(e) ==
    CASE e = "Quercus humboldtii" -> "Fagaceae"
      [] e = "Inga edulis" -> "Fabaceae"
      [] OTHER -> NULL

\* The estados a row of clasificacion_herbario is drawn from here.
EstadosFila == {"borrador", "firmado", "completado"}

\* The rows of clasificacion_herbario.
FilasPosibles ==
    [id_muestra : Especimenes, estado : EstadosFila, id_especie : Especies \cup {NULL}]

\* .in('estado', ['completado', 'firmado'])
EstadosEstadisticas == {"completado", "firmado"}

\* ------------------------------------------------------------ JS helpers
\* A Map's keys, or a Set's values, in insertion order.
RECURSIVE SinRepetir(_)
SinRepetir(s) ==
    IF s = <<>> THEN <<>>
    ELSE LET r == SinRepetir(SubSeq(s, 1, Len(s) - 1))
             u == s[Len(s)]
         IN IF \E k \in DOMAIN r : r[k] = u THEN r ELSE Append(r, u)

\* Array.prototype.sort((a, b) => b.clave - a.clave), which is stable: the
\* indices of claves by non-increasing clave.
RECURSIVE OrdenDesc(_)
OrdenDesc(claves) ==
    IF claves = <<>> THEN <<>>
    ELSE LET n == Len(claves)
             r == OrdenDesc(SubSeq(claves, 1, n - 1))
         IN SelectSeq(r, LAMBDA j : claves[j] >= claves[n])
                \o <<n>> \o SelectSeq(r, LAMBDA j : claves[j] < claves[n])

\* .slice(0, n)
Primeros(s, n) == SubSeq(s, 1, IF Len(s) < n THEN Len(s) ELSE n)

TopDiez == 10

\* den > 0 ? Math.round((num / den) * 100) : 0
Porcentaje(num, den) ==
    IF den > 0 THEN (200 * num + den) \div (2 * den) ELSE 0

\* den > 0 ? parseFloat(((num / den) * 100).toFixed(1)) : 0, in tenths of a
\* percent.
PorcentajeDecimas(num, den) ==
    IF den > 0 THEN (2000 * num + den) \div (2 * den) ELSE 0

\* String.prototype.toLowerCase of a word, for the /i flag.
Minusculas(w) ==
    CASE w \in {"Región", "REGIÓN", "región"} -> "región"
      [] OTHER -> w

\* nombre.replace(/^Región\s+/i, '').trim(): the first word is dropped when it
\* is "Región" in any case and another word follows.
NormalizarRegion(nombre) ==
    IF nombre = SinNombre THEN SinNombre
    ELSE IF Len(nombre) > 1 /\ Minusculas(Head(nombre)) = "región" THEN Tail(nombre)
    ELSE nombre

\* `Región ${nombre}`
ConPrefijoRegion(nombre) == <<"Región">> \o nombre

\* ------------------------------------------------------- GET /estadisticas
\* ClasificacionesConEspecie without the filter on estado.
ClasificacionesDeCualquierEstado(filas) ==
    SelectSeq(filas, LAMBDA c : c.id_especie # NULL)

\* clasificaciones.filter(c => c.id_especie !== null && c.especie !== null) of
\* the rows in completado or firmado.
ClasificacionesConEspecie(filas) ==
    SelectSeq(filas, LAMBDA c : c.estado \in EstadosEstadisticas /\ c.id_especie # NULL)

\* new Set(clasificacionesConEspecie.map(c => c.id_muestra))
MuestrasConEspecieIds(filas) ==
    {ClasificacionesConEspecie(filas)[k].id_muestra :
        k \in DOMAIN ClasificacionesConEspecie(filas)}

\* MuestrasClasificadas with one entry per classification with a species.
MuestrasPorClasificacion(filas) ==
    [k \in DOMAIN ClasificacionesConEspecie(filas) |->
        ClasificacionesConEspecie(filas)[k].id_muestra]

\* muestras.filter(m => muestrasConEspecieIds.has(m.id))
MuestrasClasificadas(filas) ==
    SelectSeq([m \in Especimenes |-> m], LAMBDA m : m \in MuestrasConEspecieIds(filas))

\* departamentosMap, as the list of its values after the two passes.
DepartamentosMap(depto, filas) ==
    LET mc == MuestrasClasificadas(filas)
        cce == ClasificacionesConEspecie(filas)
        conDepto == SelectSeq(mc, LAMBDA m : depto[m] # SinNombre)
        claves == SinRepetir([k \in DOMAIN conDepto |-> depto[conDepto[k]]])
    IN [k \in DOMAIN claves |->
           [name |-> claves[k],
            specimens |-> Cardinality({j \in DOMAIN mc : depto[mc[j]] = claves[k]}),
            species |-> {cce[j].id_especie :
                            j \in {i \in DOMAIN cce : depto[cce[i].id_muestra] = claves[k]}}]]

\* regionesMap, likewise; a key is the region's name as stored.
RegionesMap(depto, filas) ==
    LET mc == MuestrasClasificadas(filas)
        cce == ClasificacionesConEspecie(filas)
        region(m) == RegionDe(depto[m])
        conRegion == SelectSeq(mc, LAMBDA m : region(m) # SinNombre)
        claves == SinRepetir([k \in DOMAIN conRegion |-> region(conRegion[k])])
        deLaRegion(r) == {i \in DOMAIN cce : region(cce[i].id_muestra) = r}
    IN [k \in DOMAIN claves |->
           [name |-> claves[k],
            specimens |-> Cardinality({j \in DOMAIN mc : region(mc[j]) = claves[k]}),
            species |-> {cce[j].id_especie : j \in deLaRegion(claves[k])},
            families |-> {Familia(cce[j].id_especie) : j \in deLaRegion(claves[k])}
                            \ {NULL, ""},
            departments |-> {depto[mc[j]] :
                                j \in {i \in DOMAIN mc : region(mc[i]) = claves[k]}}]]

\* departamentos: map, sort by specimens, top 10.
DepartamentosDe(depto, filas) ==
    LET mapa == DepartamentosMap(depto, filas)
        totalMuestras == Len(MuestrasClasificadas(filas))
        filas2 == [k \in DOMAIN mapa |->
                      [name |-> mapa[k].name,
                       specimens |-> mapa[k].specimens,
                       species |-> Cardinality(mapa[k].species),
                       percentage |-> Porcentaje(mapa[k].specimens, totalMuestras)]]
        orden == OrdenDesc([k \in DOMAIN filas2 |-> filas2[k].specimens])
    IN Primeros([k \in DOMAIN orden |-> filas2[orden[k]]], TopDiez)

\* regionesBase with two names exchanged.
RegionesBaseDesordenadas ==
    <<<<"Caribe">>, <<"Andina">>, <<"Pacífica">>, <<"Orinoquía">>, <<"Amazonía">>>>

RegionesBase ==
    <<<<"Andina">>, <<"Caribe">>, <<"Pacífica">>, <<"Orinoquía">>, <<"Amazonía">>>>

\* regionesMap.get(nombreBase) || regionesMap.get(`Región ${nombreBase}`) ||
\* Array.from(regionesMap.entries()).find(([key]) => normalizarRegion(key) ===
\* nombreBase)?.[1]: the index of the entry found, 0 when there is none.
BuscarRegion(mapa, nombreBase) ==
    LET exacta == {k \in DOMAIN mapa : mapa[k].name = nombreBase}
        prefijo == {k \in DOMAIN mapa : mapa[k].name = ConPrefijoRegion(nombreBase)}
        normal == {k \in DOMAIN mapa : NormalizarRegion(mapa[k].name) = nombreBase}
        primero(S) == CHOOSE k \in S : \A j \in S : k <= j
    IN IF exacta # {} THEN primero(exacta)
       ELSE IF prefijo # {} THEN primero(prefijo)
       ELSE IF normal # {} THEN primero(normal)
       ELSE 0

\* regiones: one entry per base name, in the order of regionesBase.
RegionesDe(depto, filas) ==
    LET mapa == RegionesMap(depto, filas)
        totalMuestras == Len(MuestrasClasificadas(filas))
    IN [b \in DOMAIN RegionesBase |->
           LET k == BuscarRegion(mapa, RegionesBase[b]) IN
           IF k # 0
           THEN [name |-> RegionesBase[b],
                 departments |-> Cardinality(mapa[k].departments),
                 specimens |-> mapa[k].specimens,
                 species |-> Cardinality(mapa[k].species),
                 families |-> Cardinality(mapa[k].families),
                 percentage |-> Porcentaje(mapa[k].specimens, totalMuestras)]
           ELSE [name |-> RegionesBase[b], departments |-> 0, specimens |-> 0,
                 species |-> 0, families |-> 0, percentage |-> 0]]

\* Categoria without the default.
CategoriaSinDefecto(c) == TipoAmenaza(c.id_especie)

\* c.especie?.tipo_amenaza || 'No Amenazado'
Categoria(c) ==
    IF TipoAmenaza(c.id_especie) \in {NULL, ""} THEN "No Amenazado"
    ELSE TipoAmenaza(c.id_especie)

\* especiesPorAmenaza: amenazaMap, then sort by count.
EspeciesPorAmenaza(filas) ==
    LET cce == ClasificacionesConEspecie(filas)
        claves == SinRepetir([k \in DOMAIN cce |-> Categoria(cce[k])])
        cuenta(cat) == Cardinality({k \in DOMAIN cce : Categoria(cce[k]) = cat})
        filas2 == [k \in DOMAIN claves |->
                      [categoria |-> claves[k],
                       count |-> cuenta(claves[k]),
                       porcentaje |-> PorcentajeDecimas(cuenta(claves[k]), Len(cce))]]
        orden == OrdenDesc([k \in DOMAIN filas2 |-> filas2[k].count])
    IN [k \in DOMAIN orden |-> filas2[orden[k]]]

\* resultado
Estadisticas(depto, filas) ==
    [departamentos |-> DepartamentosDe(depto, filas),
     regiones |-> RegionesDe(depto, filas),
     total_especimenes |-> Len(MuestrasClasificadas(filas)),
     total_clasificaciones |-> Len(ClasificacionesConEspecie(filas)),
     especies_amenazadas |-> EspeciesPorAmenaza(filas)]

\* --------------------------------------------- GET /estadisticas/taxonomia
\* FaltaParametro asking for all three to be missing.
FaltanTodos(ubicacion, tipo, nivel) ==
    ubicacion = SinNombre /\ tipo \in {NULL, ""} /\ nivel \in {NULL, ""}

\* !ubicacion || !tipo || !nivel
FaltaParametro(ubicacion, tipo, nivel) ==
    ubicacion = SinNombre \/ tipo \in {NULL, ""} \/ nivel \in {NULL, ""}

\* The embedded clasificacion rows of sample m: clasificacion_herbario!inner
\* with .in('clasificacion.estado', ['completado', 'firmado']) and
\* .not('clasificacion.id_especie', 'is', null).
ClasificacionDe(filas, m) ==
    SelectSeq(filas, LAMBDA c : /\ c.id_muestra = m
                                /\ c.estado \in EstadosEstadisticas
                                /\ c.id_especie # NULL)

\* The samples the query returns: those with an embedded row (inner join).
MuestrasTaxonomia(filas) ==
    SelectSeq([m \in Especimenes |-> m], LAMBDA m : ClasificacionDe(filas, m) # <<>>)

\* UbicacionCoincide keeping every sample that has a department.
UbicacionCoincideSiempre(dept, ubicacion, tipo) == dept # SinNombre

\* The filter by location.
UbicacionCoincide(dept, ubicacion, tipo) ==
    IF tipo = "departamento" THEN dept # SinNombre /\ dept = ubicacion
    ELSE IF tipo = "region"
    THEN LET region == RegionDe(dept) IN
         /\ region # SinNombre
         /\ \/ NormalizarRegion(region) = ubicacion
            \/ region = ubicacion
            \/ region = ConPrefijoRegion(ubicacion)
    ELSE FALSE

MuestrasFiltradas(depto, filas, ubicacion, tipo) ==
    SelectSeq(MuestrasTaxonomia(filas),
              LAMBDA m : UbicacionCoincide(depto[m], ubicacion, tipo))

\* especie.genero?.familia?.nombre or especie.genero?.nombre; undefined for
\* another nivel.
TaxonNombre(c, nivel) ==
    IF nivel = "familia" THEN Familia(c.id_especie)
    ELSE IF nivel = "genero" THEN Genero(c.id_especie)
    ELSE NULL

\* The taxon names in the order taxonMap.set receives them: sample by sample,
\* classification by classification, those with a name only.
RECURSIVE TaxonesContados(_, _, _)
TaxonesContados(filas, muestras, nivel) ==
    IF muestras = <<>> THEN <<>>
    ELSE LET cs == ClasificacionDe(filas, Head(muestras))
             nombres == [k \in DOMAIN cs |-> TaxonNombre(cs[k], nivel)]
         IN SelectSeq(nombres, LAMBDA t : t \notin {NULL, ""})
                \o TaxonesContados(filas, Tail(muestras), nivel)

\* resultado: taxonMap with percentages over muestrasFiltradas.length, sorted
\* by count, top 10.
Taxonomia(depto, filas, ubicacion, tipo, nivel) ==
    LET mf == MuestrasFiltradas(depto, filas, ubicacion, tipo)
        contados == TaxonesContados(filas, mf, nivel)
        claves == SinRepetir(contados)
        total == Len(mf)
        filas2 == [k \in DOMAIN claves |->
                      LET count == Cardinality({j \in DOMAIN contados :
                                                   contados[j] = claves[k]})
                      IN [name |-> claves[k], count |-> count,
                          percentage |-> Porcentaje(count, total)]]
        orden == OrdenDesc([k \in DOMAIN filas2 |-> filas2[k].count])
    IN Primeros([k \in DOMAIN orden |-> filas2[orden[k]]], TopDiez)

\* ------------------------------------------------- the statistics requests
\* The query parameters a client may send.
Ubicaciones == {SinNombre, <<"Andina">>, <<"Antioquia">>, <<"Desconocida">>}
Tipos == {NULL, "", "departamento", "region", "municipio"}
Niveles == {NULL, "familia", "genero"}

\* The tables hold any samples and classification rows; a request is to come.
InitLab ==
    /\ id_paquete = [m \in Muestras |-> 1]
    /\ clasificaciones = <<>>
    /\ paquete = [p \in Paquetes |-> "recibido"]
    /\ pet = [i \in Peticiones |-> PeticionLibre]
    /\ \E depto \in [Especimenes -> Departamentos \cup {SinNombre}],
          filas \in UNION {[1..n -> FilasPosibles] : n \in 0..MaxFilas} :
         est = [EstVacio EXCEPT !.depto = depto, !.filas = filas]
    /\ pen = PendientesLibre
    /\ log = LogInicial
    /\ nav = NavInicial

\* The answer is sent after one more query.
ResponderLab(status, cuerpo) ==
    [est EXCEPT !.pc = "respondida", !.status = status, !.cuerpo = cuerpo,
                !.consultas = @ + 1]

\* GET /estadisticas: the muestra_botanica query succeeds.
EstadisticasMuestras ==
    /\ est.pc = "libre"
    /\ est' = [est EXCEPT !.ruta = "estadisticas", !.pc = "clasificaciones",
                          !.consultas = @ + 1]
    /\ UNCHANGED noLab

\* errorMuestras: throw, 500.
EstadisticasErrorMuestras ==
    /\ est.pc = "libre"
    /\ est' = [ResponderLab(500, <<>>) EXCEPT !.ruta = "estadisticas", !.error = TRUE]
    /\ UNCHANGED noLab

\* The clasificacion_herbario query succeeds: the aggregates are computed and
\* sent.
EstadisticasClasificaciones ==
    /\ est.ruta = "estadisticas" /\ est.pc = "clasificaciones"
    /\ est' = ResponderLab(200, Estadisticas(est.depto, est.filas))
    /\ UNCHANGED noLab

\* errorClasif ignored: the aggregates of the samples alone are sent.
EstadisticasErrorClasificacionesIgnorado ==
    /\ est.ruta = "estadisticas" /\ est.pc = "clasificaciones"
    /\ est' = [ResponderLab(200, Estadisticas(est.depto, <<>>)) EXCEPT !.error = TRUE]
    /\ UNCHANGED noLab

\* errorClasif: throw, 500.
EstadisticasErrorClasificaciones ==
    /\ est.ruta = "estadisticas" /\ est.pc = "clasificaciones"
    /\ est' = [ResponderLab(500, <<>>) EXCEPT !.error = TRUE]
    /\ UNCHANGED noLab

NextEstadisticas ==
    \/ EstadisticasMuestras
    \/ EstadisticasErrorMuestras
    \/ EstadisticasClasificaciones
    \/ EstadisticasErrorClasificaciones

SpecEstadisticas == InitLab /\ [][NextEstadisticas]_vars

\* GET /estadisticas/taxonomia without one of its parameters: 400 before any
\* query.
TaxonomiaSinParametros ==
    /\ est.pc = "libre"
    /\ \E u \in Ubicaciones, t \in Tipos, n \in Niveles :
         /\ FaltaParametro(u, t, n)
         /\ est' = [est EXCEPT !.ruta = "taxonomia", !.pc = "respondida",
                               !.ubicacion = u, !.tipo = t, !.nivel = n,
                               !.status = 400]
    /\ UNCHANGED noLab

\* The query succeeds: the counts are computed and sent.
TaxonomiaGet ==
    /\ est.pc = "libre"
    /\ \E u \in Ubicaciones, t \in Tipos, n \in Niveles :
         /\ ~FaltaParametro(u, t, n)
         /\ est' = [ResponderLab(200, Taxonomia(est.depto, est.filas, u, t, n))
                        EXCEPT !.ruta = "taxonomia",
                               !.ubicacion = u, !.tipo = t, !.nivel = n]
    /\ UNCHANGED noLab

\* errorMuestras: throw, 500.
TaxonomiaError ==
    /\ est.pc = "libre"
    /\ \E u \in Ubicaciones, t \in Tipos, n \in Niveles :
         /\ ~FaltaParametro(u, t, n)
         /\ est' = [ResponderLab(500, <<>>)
                        EXCEPT !.ruta = "taxonomia", !.error = TRUE,
                               !.ubicacion = u, !.tipo = t, !.nivel = n]
    /\ UNCHANGED noLab

NextTaxonomia ==
    \/ TaxonomiaSinParametros
    \/ TaxonomiaGet
    \/ TaxonomiaError

SpecTaxonomia == InitLab /\ [][NextTaxonomia]_vars

\* Both statistics endpoints.
NextLab ==
    \/ EstadisticasMuestras
    \/ EstadisticasErrorMuestras
    \/ EstadisticasClasificaciones
    \/ EstadisticasErrorClasificaciones
    \/ TaxonomiaSinParametros
    \/ TaxonomiaGet
    \/ TaxonomiaError

SpecLab == InitLab /\ [][NextLab]_vars

\* ---------------------------------------------- properties of the statistics
\* GET /estadisticas has answered with its aggregates.
EstadisticasRespondio ==
    est.ruta = "estadisticas" /\ est.pc = "respondida" /\ est.status = 200

\* Sample m has a classification in completado or firmado with a species.
Clasificada(m) ==
    \E k \in DOMAIN est.filas :
        /\ est.filas[k].id_muestra = m
        /\ est.filas[k].estado \in {"completado", "firmado"}
        /\ est.filas[k].id_especie # NULL

\* The region name stored for sample m.
RegionGuardada(m) == RegionDe(est.depto[m])

\* The classified samples whose stored region name is x or "Región x".
ClasificadasEn(x) ==
    {m \in Especimenes :
        Clasificada(m) /\ RegionGuardada(m) \in {x, <<"Región">> \o x}}

\* The classified samples whose stored region name ends in the words of x.
ClasificadasConNombre(x) ==
    {m \in Especimenes :
        /\ Clasificada(m)
        /\ Len(RegionGuardada(m)) >= Len(x)
        /\ SubSeq(RegionGuardada(m), Len(RegionGuardada(m)) - Len(x) + 1,
                  Len(RegionGuardada(m))) = x}

\* C14: GET /estadisticas returns exactly five regiones, Andina, Caribe,
\* Pacífica, Orinoquía and Amazonía in that order, whatever the data store
\* holds; a region without classified specimens has departments, specimens,
\* species, families and percentage 0.
C14_CincoRegiones ==
    EstadisticasRespondio =>
        LET regiones == est.cuerpo.regiones IN
        /\ [k \in DOMAIN regiones |-> regiones[k].name] =
               <<<<"Andina">>, <<"Caribe">>, <<"Pacífica">>, <<"Orinoquía">>,
                 <<"Amazonía">>>>
        /\ \A k \in DOMAIN regiones :
               ClasificadasConNombre(regiones[k].name) = {} =>
                   /\ regiones[k].departments = 0
                   /\ regiones[k].specimens = 0
                   /\ regiones[k].species = 0
                   /\ regiones[k].families = 0
                   /\ regiones[k].percentage = 0

\* An answer in which Andina has specimens and the other regions have none.
C14_Witness ==
    /\ EstadisticasRespondio
    /\ est.cuerpo.regiones[1].specimens > 0
    /\ \A k \in 2..5 : est.cuerpo.regiones[k].specimens = 0
    /\ ClasificadasConNombre(<<"Caribe">>) = {}

\* C15: classified samples stored under "Región X" and under "X" are
\* aggregated into the one regiones entry X: its specimens count is the
\* number of classified samples carrying either spelling.
C15_DosGrafiasUnaRegion ==
    EstadisticasRespondio =>
        \A k \in DOMAIN est.cuerpo.regiones :
            LET x == est.cuerpo.regiones[k].name IN
            ClasificadasConNombre(x) = ClasificadasEn(x) =>
                est.cuerpo.regiones[k].specimens = Cardinality(ClasificadasEn(x))

\* GET /estadisticas/taxonomia has answered with its counts.
TaxonomiaRespondio ==
    est.ruta = "taxonomia" /\ est.pc = "respondida" /\ est.status = 200

\* The location-matching samples of the request that contributed a taxon name.
MuestrasConTaxon ==
    LET mf == MuestrasFiltradas(est.depto, est.filas, est.ubicacion, est.tipo) IN
    {k \in DOMAIN mf :
        \E j \in DOMAIN ClasificacionDe(est.filas, mf[k]) :
            TaxonNombre(ClasificacionDe(est.filas, mf[k])[j], est.nivel) \notin {NULL, ""}}

\* C16: a matching sample without a resolvable taxon name at the requested
\* level is excluded from the denominator: each percentage is
\* round(count / N * 100), N the number of matching samples that contributed
\* a taxon name.
C16_DenominadorSinExcluidas ==
    TaxonomiaRespondio =>
        \A k \in DOMAIN est.cuerpo :
            est.cuerpo[k].percentage =
                Porcentaje(est.cuerpo[k].count, Cardinality(MuestrasConTaxon))

\* C17: when no classification is in completado or firmado with a species,
\* GET /estadisticas returns total_especimenes 0, an empty especies_amenazadas
\* and percentage 0 in every entry of departamentos and regiones.
C17_SinClasificadasTodoCero ==
    (EstadisticasRespondio /\ \A m \in Especimenes : ~Clasificada(m)) =>
        /\ est.cuerpo.total_especimenes = 0
        /\ est.cuerpo.especies_amenazadas = <<>>
        /\ \A k \in DOMAIN est.cuerpo.departamentos :
               est.cuerpo.departamentos[k].percentage = 0
        /\ \A k \in DOMAIN est.cuerpo.regiones :
               est.cuerpo.regiones[k].percentage = 0

\* The answer for tables that hold a draft with a species and a completed
\* classification without one.
C17_Witness ==
    /\ EstadisticasRespondio
    /\ \A m \in Especimenes : ~Clasificada(m)
    /\ \E k \in DOMAIN est.filas :
           est.filas[k].estado = "borrador" /\ est.filas[k].id_especie # NULL
    /\ \E k \in DOMAIN est.filas :
           est.filas[k].estado = "completado" /\ est.filas[k].id_especie = NULL
    /\ \A m \in Especimenes : est.depto[m] # SinNombre

\* The rows in completado or firmado with a species.
Calificadas ==
    {k \in DOMAIN est.filas :
        /\ est.filas[k].estado \in {"completado", "firmado"}
        /\ est.filas[k].id_especie # NULL}

\* The category a row is to be counted under.
CategoriaEsperada(k) ==
    IF TipoAmenaza(est.filas[k].id_especie) \in {NULL, ""} THEN "No Amenazado"
    ELSE TipoAmenaza(est.filas[k].id_especie)

RECURSIVE SumaCounts(_)
SumaCounts(s) == IF s = <<>> THEN 0 ELSE Head(s).count + SumaCounts(Tail(s))

\* C18: every classification in completado or firmado with a species
\* contributes 1 to exactly one entry of especies_amenazadas, the one of its
\* species' tipo_amenaza, or of "No Amenazado" when that is unset; the counts
\* sum to total_clasificaciones.
C18_UnaCategoriaPorClasificacion ==
    EstadisticasRespondio =>
        LET ea == est.cuerpo.especies_amenazadas IN
        /\ \A k \in Calificadas :
               Cardinality({j \in DOMAIN ea : ea[j].categoria = CategoriaEsperada(k)}) = 1
        /\ \A j \in DOMAIN ea :
               ea[j].count = Cardinality({k \in Calificadas :
                                             CategoriaEsperada(k) = ea[j].categoria})
        /\ est.cuerpo.total_clasificaciones = Cardinality(Calificadas)
        /\ SumaCounts(ea) = est.cuerpo.total_clasificaciones

\* An answer with a threatened species and one whose tipo_amenaza is unset.
C18_Witness ==
    /\ EstadisticasRespondio
    /\ est.cuerpo.total_clasificaciones = 2
    /\ \E j \in DOMAIN est.cuerpo.especies_amenazadas :
           est.cuerpo.especies_amenazadas[j].categoria = "No Amenazado"
    /\ \E j \in DOMAIN est.cuerpo.especies_amenazadas :
           est.cuerpo.especies_amenazadas[j].categoria = "VU"

\* GET /estadisticas/taxonomia has answered.
TaxonomiaTermino == est.ruta = "taxonomia" /\ est.pc = "respondida"

\* C19: GET /estadisticas/taxonomia answers 400 whenever ubicacion, tipo or
\* nivel is missing or empty, and then issues no data-store query.
C19_SinParametro400 ==
    (/\ TaxonomiaTermino
     /\ \/ est.ubicacion = <<>>
        \/ est.tipo = NULL \/ est.tipo = ""
        \/ est.nivel = NULL \/ est.nivel = "")
        => est.status = 400 /\ est.consultas = 0

\* The answer to a request with an empty tipo and the other two parameters.
C19_Witness ==
    /\ TaxonomiaTermino
    /\ est.tipo = "" /\ est.ubicacion # <<>> /\ est.nivel = "familia"
    /\ est.status = 400
    /\ \E m \in Especimenes : Clasificada(m)

\* No classified sample has the ubicacion of the request as its department
\* (tipo departamento), or a region name with a word of it (tipo region).
UbicacionDesconocida ==
    \A m \in Especimenes :
        Clasificada(m) =>
            IF est.tipo = "departamento" THEN est.depto[m] # est.ubicacion
            ELSE \A i \in DOMAIN RegionGuardada(m), j \in DOMAIN est.ubicacion :
                    RegionGuardada(m)[i] # est.ubicacion[j]

\* C20: with the three parameters present and a ubicacion that matches no
\* department or region of a classified sample, GET /estadisticas/taxonomia
\* whose query succeeds returns the empty array with status 200.
C20_UbicacionDesconocidaVacio ==
    (/\ TaxonomiaTermino
     /\ est.ubicacion # <<>>
     /\ est.tipo \in {"departamento", "region"}
     /\ est.nivel \in {"familia", "genero"}
     /\ UbicacionDesconocida
     /\ ~est.error)
        => est.status = 200 /\ est.cuerpo = <<>>

\* The answer for a ubicacion no classified sample is in, the tables holding
\* classified samples elsewhere.
C20_Witness ==
    /\ TaxonomiaTermino
    /\ est.tipo = "departamento" /\ est.ubicacion = <<"Desconocida">>
    /\ est.nivel = "familia"
    /\ \E m \in Especimenes : Clasificada(m) /\ est.depto[m] = <<"Antioquia">>
    /\ est.status = 200 /\ est.cuerpo = <<>>

\* The number of data-store queries of a statistics request.
ConsultasDe(ruta) == IF ruta = "estadisticas" THEN 2 ELSE 1

\* C21: the statistics endpoints return no partial result: when a query of
\* the request fails the answer is 500 without an aggregate, and an answer 200
\* is computed from the complete result of every query of the request.
C21_SinResultadosParciales ==
    (est.pc = "respondida" /\ est.ruta \in {"estadisticas", "taxonomia"}) =>
        /\ est.error => est.status = 500 /\ est.cuerpo = <<>>
        /\ est.status = 200 =>
              /\ ~est.error
              /\ est.consultas = ConsultasDe(est.ruta)
              /\ est.ruta = "estadisticas" =>
                    /\ est.cuerpo.total_especimenes =
                           Cardinality({m \in Especimenes : Clasificada(m)})
                    /\ est.cuerpo.total_clasificaciones = Cardinality(Calificadas)

\* GET /estadisticas has failed in its second query, the first having
\* returned samples that are classified.
C21_Witness ==
    /\ est.ruta = "estadisticas" /\ est.pc = "respondida"
    /\ est.error /\ est.consultas = 2
    /\ est.status = 500
    /\ \E m \in Especimenes : Clasificada(m)

\* C22: the request that triggers a recompute never waits for it: while the
\* recompute has not yet written paquete.estado, the response of the estado
\* request has already been sent, with a success status.
C22_RespuestaAntesDelRecompute ==
    \A i \in Peticiones :
        pet[i].rc \in {"lookup", "leer", "escribir"} =>
            /\ pet[i].ruta \in RutasEstado
            /\ pet[i].pc = "respondida"
            /\ pet[i].status \in {200, 201}

\* The success response is out and the package still holds an estado other
\* than the one the recompute is about to write.
C22_Witness ==
    \E i \in Peticiones :
        /\ pet[i].pc = "respondida" /\ pet[i].status = 200
        /\ pet[i].rc = "escribir"
        /\ paquete[pet[i].idPaquete] # pet[i].nuevoEstado

\* ------------------------------------------- a classification exists already
\* The tables hold one classification row, created earlier by POST
\* /clasificaciones.
InitConFila ==
    /\ id_paquete \in {[m \in Muestras |-> 1],
                       [m \in Muestras |-> IF m = 1 THEN 2 ELSE 1]}
    /\ \E m \in Muestras, e \in EstadosClasificacion :
         clasificaciones = <<[id_muestra |-> m, estado |-> e]>>
    /\ paquete = [p \in Paquetes |-> "recibido"]
    /\ pet = [i \in Peticiones |-> PeticionLibre]
    /\ est = EstVacio
    /\ pen = PendientesLibre
    /\ log = LogInicial
    /\ nav = NavInicial

\* The two look-up-then-write endpoints on such tables.
SpecEditar == InitConFila /\ [][NextUpsert]_vars

\* C23: PUT /clasificaciones/muestra/:muestraId on a sample whose existing
\* classification is not in borrador or en_analisis answers 409 and leaves
\* the row unchanged, also when the estado has been changed by another request
\* between the lookup and the update.
C23_NoEditableDa409 ==
    [][\A i \in Peticiones :
        /\ (pet[i].ruta = "ninguna" /\ pet'[i].ruta = "muestra"
                /\ pet'[i].pc = "escribir" /\ pet'[i].existing # 0)
              => clasificaciones[pet'[i].existing].estado \in EstadosEditables
        /\ (pet[i].ruta = "muestra" /\ pet[i].pc = "escribir"
                /\ pet'[i].pc = "respondida" /\ pet[i].existing # 0
                /\ clasificaciones[pet[i].existing].estado \notin EstadosEditables)
              => (pet'[i].status = 409 /\ clasificaciones' = clasificaciones)]_vars

\* ------------------------------------------------- GET /muestras/pendientes
\* .in('estado', ['borrador', 'en_analisis', 'firmado', 'completado'])
EstadosExcluidos == {"borrador", "en_analisis", "firmado", "completado"}

\* PASO 1: the id_muestra of the classifications in those estados. conFila
\* remembers the samples that have a classification row of any estado now.
PendientesClasificadas ==
    /\ pen.pc = "libre"
    /\ pen' = [pen EXCEPT
                 !.pc = "muestras",
                 !.ids = {clasificaciones[c].id_muestra :
                             c \in {x \in DOMAIN clasificaciones :
                                       clasificaciones[x].estado \in EstadosExcluidos}},
                 !.conFila = {m \in Muestras : FilasDe(m) # {}}]
    /\ UNCHANGED <<gest, est, log, nav>>

\* errorClasificadas: 500.
PendientesErrorClasificadas ==
    /\ pen.pc = "libre"
    /\ pen' = [pen EXCEPT !.pc = "respondida", !.status = 500]
    /\ UNCHANGED <<gest, est, log, nav>>

\* PASO 2 to 4: the samples with a package whose id is not among those ids;
\* the data of the external service changes no sample of the list.
PendientesMuestras ==
    /\ pen.pc = "muestras"
    /\ pen' = [pen EXCEPT
                 !.pc = "respondida", !.status = 200,
                 !.cuerpo = {m \in Muestras : id_paquete[m] # 0 /\ m \notin pen.ids}]
    /\ UNCHANGED <<gest, est, log, nav>>

\* error: 500.
PendientesErrorMuestras ==
    /\ pen.pc = "muestras"
    /\ pen' = [pen EXCEPT !.pc = "respondida", !.status = 500]
    /\ UNCHANGED <<gest, est, log, nav>>

\* The request, among requests that create and change classifications.
NextPendientes ==
    \/ PendientesClasificadas
    \/ PendientesErrorClasificadas
    \/ PendientesMuestras
    \/ PendientesErrorMuestras
    \/ \E i \in Peticiones :
        \/ ClasificacionesPost(i)
        \/ IdEstadoActualizar(i)
        \/ IdEstadoBuscar(i)
        \/ IdEstadoSinFila(i)
        \/ RecomputeBuscarPaquete(i)
        \/ RecomputeLeerMuestras(i)
        \/ RecomputeActualizarPaquete(i)

SpecPendientes == Init /\ [][NextPendientes]_vars

\* C24: GET /muestras/pendientes never returns a sample that already has a
\* classification record, whatever the estado of the record: no sample of the
\* answer had a classification row when the request read the classifications.
C24_PendientesSinClasificacion ==
    (pen.pc = "respondida" /\ pen.status = 200) => pen.cuerpo \cap pen.conFila = {}

\* C25: PUT /clasificaciones/id/:id/estado applies a request only along the
\* workflow borrador -> firmado -> completado: the row goes from borrador to
\* firmado or from firmado to completado.
C25_SoloFlujoDocumentado ==
    [][\A i \in Peticiones :
        (pet[i].ruta = "ninguna" /\ pet'[i].ruta = "idEstado") =>
            \A c \in DOMAIN clasificaciones :
                clasificaciones'[c] # clasificaciones[c] =>
                    \/ /\ clasificaciones[c].estado = "borrador"
                       /\ clasificaciones'[c].estado = "firmado"
                    \/ /\ clasificaciones[c].estado = "firmado"
                       /\ clasificaciones'[c].estado = "completado"]_vars

\* C27: when PUT /clasificaciones/id/:id/estado answers with success, a row
\* with that id exists and its estado is the requested one at the time of the
\* response; a request whose id matches no row does not answer with success.
C27_ExitoImplicaFilaActualizada ==
    [][\A i \in Peticiones :
        (pet[i].ruta = "idEstado" /\ pet[i].pc = "buscar"
            /\ pet'[i].pc = "respondida" /\ pet'[i].status = 200) =>
                /\ pet[i].id \in DOMAIN clasificaciones
                /\ clasificaciones[pet[i].id].estado = pet[i].estado]_vars

\* C28: in every response of GET /estadisticas, total_especimenes is the
\* number of distinct samples with a completado/firmado classification that
\* has a species and is at most total_clasificaciones; a sample is counted
\* once in its department's specimens and at most once in its region's, even
\* when it has several qualifying classifications.
C28_CadaMuestraUnaVez ==
    EstadisticasRespondio =>
        LET r == est.cuerpo IN
        /\ r.total_especimenes = Cardinality({m \in Especimenes : Clasificada(m)})
        /\ r.total_especimenes <= r.total_clasificaciones
        /\ \A k \in DOMAIN r.departamentos :
               r.departamentos[k].specimens =
                   Cardinality({m \in Especimenes :
                       Clasificada(m) /\ est.depto[m] = r.departamentos[k].name})
        /\ \A k \in DOMAIN r.regiones :
               r.regiones[k].specimens <=
                   Cardinality(ClasificadasConNombre(r.regiones[k].name))

\* An answer over a sample with two qualifying classifications, counted once.
C28_Witness ==
    /\ EstadisticasRespondio
    /\ est.cuerpo.total_especimenes = 1
    /\ est.cuerpo.total_clasificaciones = 2
    /\ Len(est.cuerpo.departamentos) = 1
    /\ est.cuerpo.departamentos[1].specimens = 1
    /\ est.cuerpo.regiones[1].specimens = 1

\* C29: every entry returned by GET /estadisticas/taxonomia has a percentage
\* between 0 and 100 and a count not greater than the number of
\* location-matching samples; the result has at most 10 entries, ordered by
\* non-increasing count.
C29_PorcentajeYCountAcotados ==
    TaxonomiaRespondio =>
        LET coinciden == {m \in Especimenes :
                             /\ Clasificada(m)
                             /\ UbicacionCoincide(est.depto[m], est.ubicacion, est.tipo)}
        IN /\ Len(est.cuerpo) <= 10
           /\ \A k \in DOMAIN est.cuerpo :
                  /\ est.cuerpo[k].percentage \in 0..100
                  /\ est.cuerpo[k].count <= Cardinality(coinciden)
           /\ \A j, k \in DOMAIN est.cuerpo :
                  j < k => est.cuerpo[j].count >= est.cuerpo[k].count

\* ---------------------------------------------------------- Logger
\* stats.size: the size of a file holding the messages datos.
RECURSIVE Tamano(_)
Tamano(datos) ==
    IF datos = <<>> THEN 0 ELSE Head(datos) + Tamano(Tail(datos))

\* fs.renameSync(a, b): b is replaced by a, a is no more.
Renombrar(dir, a, b) == [dir EXCEPT ![b] = dir[a], ![a] = Ausente]

\* for (let i = this.maxFiles - 1; i >= 1; i--): `${basename}.${i}.log`, when
\* it exists, becomes `${basename}.${i + 1}.log`.
RECURSIVE MoverArchivos(_, _, _, _)
MoverArchivos(dir, nivel, dia, i) ==
    IF i < 1 THEN dir
    ELSE MoverArchivos(IF dir[<<nivel, dia, i>>].existe
                       THEN Renombrar(dir, <<nivel, dia, i>>, <<nivel, dia, i + 1>>)
                       ELSE dir,
                       nivel, dia, i - 1)

\* RotateLogFile rotating only a file that is above maxFileSize.
RotateLogFileSoloMayor(dir, nivel, dia) ==
    LET filePath == <<nivel, dia, 0>> IN
    IF Tamano(dir[filePath].datos) > MaxFileSize
    THEN LET sinViejo == [dir EXCEPT ![<<nivel, dia, MaxFiles>>] = Ausente]
             movidos == MoverArchivos(sinViejo, nivel, dia, MaxFiles - 1)
         IN Renombrar(movidos, filePath, <<nivel, dia, 1>>)
    ELSE dir

\* rotateLogFile(filePath), of an existing file: at maxFileSize or above, the
\* file numbered maxFiles is deleted, the others move up and the current file
\* becomes number 1.
RotateLogFile(dir, nivel, dia) ==
    LET filePath == <<nivel, dia, 0>> IN
    IF Tamano(dir[filePath].datos) >= MaxFileSize
    THEN LET sinViejo == [dir EXCEPT ![<<nivel, dia, MaxFiles>>] = Ausente]
             movidos == MoverArchivos(sinViejo, nivel, dia, MaxFiles - 1)
         IN Renombrar(movidos, filePath, <<nivel, dia, 1>>)
    ELSE dir

\* fs.appendFileSync(filePath, logMessage): the file is created when missing.
AppendFile(dir, n, mensaje) ==
    [dir EXCEPT ![n] = [existe |-> TRUE, datos |-> Append(@.datos, mensaje)]]

\* The logger is built with file logging on or off, over an empty directory.
InitLogger ==
    /\ id_paquete = [m \in Muestras |-> 1]
    /\ clasificaciones = <<>>
    /\ paquete = [p \in Paquetes |-> "recibido"]
    /\ pet = [i \in Peticiones |-> PeticionLibre]
    /\ est = EstVacio
    /\ pen = PendientesLibre
    /\ \E e \in BOOLEAN : log = [LogInicial EXCEPT !.enableFileLogging = e]
    /\ nav = NavInicial

\* writeToFile(level, message): rotation of the level's file of the day when
\* it exists, then the message is appended to it and to the combined file.
WriteToFile ==
    \E nivel \in NivelesLog, mensaje \in Mensajes :
        /\ log.combinado[log.dia] + mensaje <= MaxCombinado
        /\ IF ~log.enableFileLogging THEN UNCHANGED log
           ELSE LET filePath == <<nivel, log.dia, 0>>
                    rotado == IF log.archivos[filePath].existe
                              THEN RotateLogFile(log.archivos, nivel, log.dia)
                              ELSE log.archivos
                IN log' = [log EXCEPT
                              !.archivos = AppendFile(rotado, filePath, mensaje),
                              !.combinado[log.dia] = @ + mensaje]
        /\ UNCHANGED noLog

\* new Date() in getLogFilePath gives the next day.
PasaElDia ==
    /\ log.dia < MaxDias
    /\ log' = [log EXCEPT !.dia = @ + 1]
    /\ UNCHANGED noLog

NextLogger == WriteToFile \/ PasaElDia

SpecLogger == InitLogger /\ [][NextLogger]_vars

MaxHistorial == 4

\* Views a child component asks for, and the rol of a user.
Vistas == {"MainPage", "Login", "RecepcionDashboard", "LaboratorioDashboard",
           "AdminDashboard", "HerbarioDigital", "Estadisticas"}
Roles == {NULL, "", "recepcionista", "Laboratorista", " admin ", "super_admin",
          "consulta", "brigadista"}

\* rol.toLowerCase().trim()
RolNormalizado(rol) ==
    CASE rol = "Laboratorista" -> "laboratorista"
      [] rol = " admin " -> "admin"
      [] OTHER -> rol

\* navigateTo(view): the view is pushed when it is not the current one.
NavigateToEn(n, view) ==
    [n EXCEPT !.navigationHistory = IF n.currentView # view THEN Append(@, view) ELSE @,
              !.currentView = view]

\* GoBackEn leaving the history as it is.
GoBackSinPop(n) ==
    LET h == n.navigationHistory IN
    IF Len(h) > 1
    THEN [n EXCEPT !.currentView = h[Len(h) - 1]]
    ELSE NavigateToEn(n, "MainPage")

\* goBack()
GoBackEn(n) ==
    LET h == n.navigationHistory IN
    IF Len(h) > 1
    THEN [n EXCEPT !.navigationHistory = SubSeq(h, 1, Len(h) - 1),
                   !.currentView = h[Len(h) - 1]]
    ELSE NavigateToEn(n, "MainPage")

\* redirectByRole(rol)
RedirectByRole(n, rol) ==
    IF rol \in {NULL, ""} THEN NavigateToEn(n, "MainPage")
    ELSE LET roleLowerCase == RolNormalizado(rol) IN
         NavigateToEn(n,
             CASE roleLowerCase = "recepcionista" -> "RecepcionDashboard"
               [] roleLowerCase = "laboratorista" -> "LaboratorioDashboard"
               [] roleLowerCase \in {"admin", "super_admin"} -> "AdminDashboard"
               [] roleLowerCase = "consulta" -> "HerbarioDigital"
               [] OTHER -> "MainPage")

\* The history is followed up to MaxHistorial entries.
Cabe(n) == Len(n.navigationHistory) <= MaxHistorial

\* onMounted: a saved user of an active session is redirected by rol.
OnMounted ==
    /\ ~nav.montado
    /\ \E sesion \in BOOLEAN, rol \in Roles :
          nav' = IF sesion
                 THEN RedirectByRole([nav EXCEPT !.montado = TRUE, !.rol = rol,
                                                 !.op = "onMounted"], rol)
                 ELSE [nav EXCEPT !.montado = TRUE, !.op = "onMounted"]
    /\ UNCHANGED noNav

NavigateTo ==
    /\ nav.montado
    /\ \E view \in Vistas :
          /\ nav' = NavigateToEn([nav EXCEPT !.op = "navigateTo"], view)
          /\ Cabe(nav')
    /\ UNCHANGED noNav

GoBack ==
    /\ nav.montado
    /\ nav' = GoBackEn([nav EXCEPT !.op = "goBack"])
    /\ UNCHANGED noNav

HandleLoginSuccess ==
    /\ nav.montado
    /\ \E rol \in Roles :
          /\ nav' = RedirectByRole([nav EXCEPT !.rol = rol, !.op = "handleLoginSuccess"], rol)
          /\ Cabe(nav')
    /\ UNCHANGED noNav

HandleLogout ==
    /\ nav.montado
    /\ nav' = NavigateToEn([nav EXCEPT !.rol = NULL, !.op = "handleLogout"], "MainPage")
    /\ Cabe(nav')
    /\ UNCHANGED noNav

NextNav == OnMounted \/ NavigateTo \/ GoBack \/ HandleLoginSuccess \/ HandleLogout

SpecNav == Init /\ [][NextNav]_vars

\* C30: after any sequence of navigateTo, goBack, handleLoginSuccess and
\* handleLogout, navigationHistory is not empty and its last element is
\* currentView; goBack with more than one entry drops the last entry and
\* makes the previous one current, and with a single entry makes 'MainPage'
\* current.
C30_HistorialYVistaActual ==
    [][/\ \A n \in {nav, nav'} :
              /\ Len(n.navigationHistory) >= 1
              /\ n.navigationHistory[Len(n.navigationHistory)] = n.currentView
       /\ (nav'.op = "goBack" /\ nav' # nav) =>
              LET h == nav.navigationHistory IN
              IF Len(h) > 1
              THEN /\ nav'.currentView = h[Len(h) - 1]
                   /\ nav'.navigationHistory = SubSeq(h, 1, Len(h) - 1)
              ELSE /\ nav'.currentView = "MainPage"
                   /\ nav'.navigationHistory = <<"MainPage">>]_vars

\* goBack has run on a history of three entries.
C30_Witness ==
    /\ nav.op = "goBack"
    /\ nav.navigationHistory = <<"MainPage", "Login">>
    /\ nav.currentView = "Login"
    /\ nav.rol = "consulta"

====
